---------------------------- MODULE Spec2Model ----------------------------
(***************************************************************************)
(* A model of the MQTT client of mqttclient/mqttclient.go: the client's    *)
(* lifecycle (Start, Stop, the signal watcher), its dispatch loop          *)
(* (handleMessages), its publish loop (startPublishing) and the JSON wire  *)
(* format of the events it publishes and receives.                         *)
(*                                                                         *)
(* Goroutines are processes with a program counter each; a channel         *)
(* operation, an adapter call or a callback is one step.  An unrecovered   *)
(* panic, or main returning, ends the whole process: no goroutine takes a  *)
(* step afterwards.                                                        *)
(***************************************************************************)
EXTENDS Integers, Sequences, FiniteSets, TLC

(***************************************************************************)
(* Bounds of the model.                                                    *)
(***************************************************************************)
\* Calls of Start the caller makes at most.
MaxStarts == 2
\* Characters of a string of an event, at most.
MaxStrLen == 1
\* Readings of an event, at most.
MaxReadings == 1

None == [none |-> TRUE]

(***************************************************************************)
(* The wire format.  A Go string is a sequence of symbols: ordinary        *)
(* characters, the quote, the backslash, the byte 0xFF (which is not valid *)
(* UTF-8 anywhere in a string) and the character U+FFFD.  A payload is a   *)
(* sequence of symbols too.                                                *)
(***************************************************************************)
Quote == "\""
Backslash == "\\"
InvalidByte == "0xFF"
ReplacementChar == "U+FFFD"

Digits == <<"0", "1", "2", "3", "4", "5", "6", "7", "8", "9">>

IsDigit(c) == \E d \in 1..10 : Digits[d] = c

DigitValue(c) == (CHOOSE d \in 1..10 : Digits[d] = c) - 1

\* The zero value of dtos.Event, restricted to the fields the client's
\* code sets: a string (id), an integer (origin) and the readings, a nil
\* or non-nil slice of readings with a string value each.
ZeroEvent == [id |-> <<>>, origin |-> 0, readings |-> [nil |-> TRUE, items |-> <<>>]]

ZeroReading == [value |-> <<>>]

\* encoding/json's string encoder: quote and backslash are escaped, a byte
\* that is not valid UTF-8 is written as the six-character escape of U+FFFD.
RECURSIVE EncodeChars(_)
EncodeChars(s) ==
    IF s = <<>> THEN <<>>
    ELSE LET c == Head(s)
             e == IF c = Quote THEN <<Backslash, Quote>>
                  ELSE IF c = Backslash THEN <<Backslash, Backslash>>
                  ELSE IF c = InvalidByte THEN <<Backslash, "u", "f", "f", "f", "d">>
                  ELSE <<c>>
         IN e \o EncodeChars(Tail(s))

\* A plausible slip: the characters are written as they are.
EncodeString_NoEscape(s) == <<Quote>> \o s \o <<Quote>>

EncodeString(s) == <<Quote>> \o EncodeChars(s) \o <<Quote>>

RECURSIVE EncodeNat(_)
EncodeNat(n) ==
    IF n < 10 THEN <<Digits[n + 1]>>
    ELSE EncodeNat(n \div 10) \o <<Digits[(n % 10) + 1]>>

EncodeInt(n) == IF n < 0 THEN <<"-">> \o EncodeNat(0 - n) ELSE EncodeNat(n)

EncodeKey(k) == <<Quote>> \o k \o <<Quote, ":">>

EncodeReading(r) ==
    <<"{">> \o EncodeKey(<<"v", "a", "l", "u", "e">>) \o EncodeString(r.value) \o <<"}">>

RECURSIVE EncodeReadings(_)
EncodeReadings(rs) ==
    IF rs = <<>> THEN <<>>
    ELSE EncodeReading(Head(rs))
         \o (IF Len(rs) > 1 THEN <<",">> ELSE <<>>)
         \o EncodeReadings(Tail(rs))

NullLiteral == <<"n", "u", "l", "l">>

\* json.Marshal of an Event: the fields in declaration order; a nil slice
\* is written as null.
Marshal(event) ==
    <<"{">>
    \o EncodeKey(<<"i", "d">>) \o EncodeString(event.id) \o <<",">>
    \o EncodeKey(<<"o", "r", "i", "g", "i", "n">>) \o EncodeInt(event.origin) \o <<",">>
    \o EncodeKey(<<"r", "e", "a", "d", "i", "n", "g", "s">>)
    \o (IF event.readings.nil THEN NullLiteral
        ELSE <<"[">> \o EncodeReadings(event.readings.items) \o <<"]">>)
    \o <<"}">>

(***************************************************************************)
(* encoding/json's decoder, for the JSON the alphabet can spell: objects,  *)
(* arrays, strings, integers and null, without white space.  A JSON value  *)
(* is a record [t, s, n, a]: its kind, and its string, number, or elements *)
(* (an object's elements are <<key, value>> pairs).                        *)
(***************************************************************************)
JNull == [t |-> "null", s |-> <<>>, n |-> 0, a |-> <<>>]

JStr(s) == [t |-> "str", s |-> s, n |-> 0, a |-> <<>>]

JNum(n) == [t |-> "num", s |-> <<>>, n |-> n, a |-> <<>>]

JArr(a) == [t |-> "arr", s |-> <<>>, n |-> 0, a |-> a]

JObj(a) == [t |-> "obj", s |-> <<>>, n |-> 0, a |-> a]

ParseFail == [ok |-> FALSE, v |-> JNull, i |-> 0]

ParseOk(v, i) == [ok |-> TRUE, v |-> v, i |-> i]

At(s, i) == IF i >= 1 /\ i <= Len(s) THEN s[i] ELSE "EOF"

\* The characters of a string literal from position i up to its closing
\* quote: escapes are undone, a byte that is not valid UTF-8 reads as U+FFFD.
RECURSIVE ParseStringBody(_, _, _)
ParseStringBody(s, i, acc) ==
    LET c == At(s, i) IN
    IF c = "EOF" THEN ParseFail
    ELSE IF c = Quote THEN ParseOk(JStr(acc), i + 1)
    ELSE IF c = Backslash THEN
        LET d == At(s, i + 1) IN
        IF d = Quote \/ d = Backslash
        THEN ParseStringBody(s, i + 2, Append(acc, d))
        ELSE IF d = "u" /\ At(s, i + 2) = "f" /\ At(s, i + 3) = "f"
                /\ At(s, i + 4) = "f" /\ At(s, i + 5) = "d"
        THEN ParseStringBody(s, i + 6, Append(acc, ReplacementChar))
        ELSE ParseFail
    ELSE IF c = InvalidByte THEN ParseStringBody(s, i + 1, Append(acc, ReplacementChar))
    ELSE ParseStringBody(s, i + 1, Append(acc, c))

ParseString(s, i) ==
    IF At(s, i) = Quote THEN ParseStringBody(s, i + 1, <<>>) ELSE ParseFail

RECURSIVE ParseDigits(_, _, _)
ParseDigits(s, i, acc) ==
    IF IsDigit(At(s, i)) THEN ParseDigits(s, i + 1, acc * 10 + DigitValue(At(s, i)))
    ELSE ParseOk(JNum(acc), i)

\* An integer literal: an optional sign, then 0 or a digit sequence that
\* does not start with 0.
ParseNumber(s, i) ==
    LET neg == At(s, i) = "-"
        j == IF neg THEN i + 1 ELSE i
        r == IF At(s, j) = "0" THEN ParseOk(JNum(0), j + 1)
             ELSE IF IsDigit(At(s, j)) THEN ParseDigits(s, j, 0)
             ELSE ParseFail
    IN IF r.ok /\ neg THEN ParseOk(JNum(0 - r.v.n), r.i) ELSE r

ParseNull(s, i) ==
    IF i + 3 <= Len(s) /\ SubSeq(s, i, i + 3) = NullLiteral THEN ParseOk(JNull, i + 4) ELSE ParseFail

RECURSIVE ParseValue(_, _)
RECURSIVE ParseElements(_, _, _)
RECURSIVE ParseMembers(_, _, _)

ParseValue(s, i) ==
    LET c == At(s, i) IN
    IF c = "{" THEN
        (IF At(s, i + 1) = "}" THEN ParseOk(JObj(<<>>), i + 2) ELSE ParseMembers(s, i + 1, <<>>))
    ELSE IF c = "[" THEN
        (IF At(s, i + 1) = "]" THEN ParseOk(JArr(<<>>), i + 2) ELSE ParseElements(s, i + 1, <<>>))
    ELSE IF c = Quote THEN ParseString(s, i)
    ELSE IF c = "-" \/ IsDigit(c) THEN ParseNumber(s, i)
    ELSE IF c = "n" THEN ParseNull(s, i)
    ELSE ParseFail

ParseElements(s, i, acc) ==
    LET r == ParseValue(s, i) IN
    IF ~r.ok THEN ParseFail
    ELSE IF At(s, r.i) = "," THEN ParseElements(s, r.i + 1, Append(acc, r.v))
    ELSE IF At(s, r.i) = "]" THEN ParseOk(JArr(Append(acc, r.v)), r.i + 1)
    ELSE ParseFail

ParseMembers(s, i, acc) ==
    LET k == ParseString(s, i) IN
    IF ~k.ok \/ At(s, k.i) # ":" THEN ParseFail
    ELSE LET r == ParseValue(s, k.i + 1) IN
         IF ~r.ok THEN ParseFail
         ELSE IF At(s, r.i) = "," THEN ParseMembers(s, r.i + 1, Append(acc, <<k.v.s, r.v>>))
         ELSE IF At(s, r.i) = "}" THEN ParseOk(JObj(Append(acc, <<k.v.s, r.v>>)), r.i + 1)
         ELSE ParseFail

DecodeFail == [ok |-> FALSE, event |-> ZeroEvent]

\* A reading from an object's members: "value" must be a string or null,
\* other keys are ignored.
RECURSIVE BindReading(_, _)
BindReading(members, r) ==
    IF members = <<>> THEN [ok |-> TRUE, r |-> r]
    ELSE LET k == Head(members)[1]
             v == Head(members)[2]
         IN IF k = <<"v", "a", "l", "u", "e">> /\ v.t = "str"
            THEN BindReading(Tail(members), [r EXCEPT !.value = v.s])
            ELSE IF k = <<"v", "a", "l", "u", "e">> /\ v.t # "null"
            THEN [ok |-> FALSE, r |-> r]
            ELSE BindReading(Tail(members), r)

RECURSIVE BindReadings(_, _)
BindReadings(elems, acc) ==
    IF elems = <<>> THEN [ok |-> TRUE, items |-> acc]
    ELSE LET v == Head(elems) IN
         IF v.t = "null" THEN BindReadings(Tail(elems), Append(acc, ZeroReading))
         ELSE IF v.t # "obj" THEN [ok |-> FALSE, items |-> acc]
         ELSE LET b == BindReading(v.a, ZeroReading) IN
              IF b.ok THEN BindReadings(Tail(elems), Append(acc, b.r))
              ELSE [ok |-> FALSE, items |-> acc]

\* An Event from an object's members: a known key whose value has the
\* wrong kind is a type error, null leaves the field alone, other keys
\* are ignored.
RECURSIVE BindEvent(_, _)
BindEvent(members, e) ==
    IF members = <<>> THEN [ok |-> TRUE, event |-> e]
    ELSE LET k == Head(members)[1]
             v == Head(members)[2]
             rest == Tail(members)
         IN IF v.t = "null" THEN BindEvent(rest, e)
            ELSE IF k = <<"i", "d">> THEN
                (IF v.t = "str" THEN BindEvent(rest, [e EXCEPT !.id = v.s]) ELSE DecodeFail)
            ELSE IF k = <<"o", "r", "i", "g", "i", "n">> THEN
                (IF v.t = "num" THEN BindEvent(rest, [e EXCEPT !.origin = v.n]) ELSE DecodeFail)
            ELSE IF k = <<"r", "e", "a", "d", "i", "n", "g", "s">> THEN
                (IF v.t = "arr"
                 THEN LET b == BindReadings(v.a, <<>>) IN
                      IF b.ok
                      THEN BindEvent(rest, [e EXCEPT !.readings = [nil |-> FALSE, items |-> b.items]])
                      ELSE DecodeFail
                 ELSE DecodeFail)
            ELSE BindEvent(rest, e)

\* json.Unmarshal(payload, &event) on a zero Event: a syntax error, text
\* after the value, a value that is no object, or a field of the wrong
\* kind is an error.
Unmarshal(payload) ==
    LET r == ParseValue(payload, 1) IN
    IF ~r.ok \/ r.i # Len(payload) + 1 THEN DecodeFail
    ELSE IF r.v.t = "null" THEN [ok |-> TRUE, event |-> ZeroEvent]
    ELSE IF r.v.t # "obj" THEN DecodeFail
    ELSE BindEvent(r.v.a, ZeroEvent)


(***************************************************************************)
(* The events and envelopes the model draws its inputs from.               *)
(***************************************************************************)
Alphabet == {"a", Quote, Backslash, InvalidByte, ReplacementChar}

RECURSIVE StringsUpTo(_)
StringsUpTo(n) ==
    IF n = 0 THEN {<<>>}
    ELSE LET shorter == StringsUpTo(n - 1) IN
         shorter \cup {Append(s, c) : s \in shorter, c \in Alphabet}

RECURSIVE ReadingListsUpTo(_)
ReadingListsUpTo(n) ==
    IF n = 0 THEN {<<>>}
    ELSE LET shorter == ReadingListsUpTo(n - 1) IN
         shorter \cup {Append(rs, [value |-> v]) : rs \in shorter, v \in {<<>>, <<Quote, "a">>}}

\* Every event within the bounds.
Events ==
    {[id |-> s, origin |-> o, readings |-> r] :
        s \in StringsUpTo(MaxStrLen),
        o \in {0, 120},
        r \in {[nil |-> TRUE, items |-> <<>>]}
              \cup {[nil |-> FALSE, items |-> rs] : rs \in ReadingListsUpTo(MaxReadings)}}

RECURSIVE ValidUTF8(_)
ValidUTF8(s) == s = <<>> \/ (Head(s) # InvalidByte /\ ValidUTF8(Tail(s)))

ValidUTF8Event(e) ==
    /\ ValidUTF8(e.id)
    /\ \A i \in 1..Len(e.readings.items) : ValidUTF8(e.readings.items[i].value)

JSONType == "application/json"

TestTopic == "edgex/events/test"

Topics == {TestTopic, "edgex/events/ns/dev"}

\* The event PublishTestEvent builds: fixed names, one reading (the fresh
\* identifiers and the time are plain characters).
TestEvent ==
    [id |-> <<"a">>, origin |-> 120,
     readings |-> [nil |-> FALSE, items |-> <<[value |-> <<"a">>]>>]]

\* An envelope: types.MessageEnvelope's ContentType, Payload and
\* ReceivedTopic; src, which the program has not, remembers the event a
\* payload was serialized from (None for an envelope of another publisher).
Envelope(ctype, payload, topic, src) ==
    [contentType |-> ctype, payload |-> payload, receivedTopic |-> topic, src |-> src]

\* The caller's events in the lifecycle specification.
SampleEvents ==
    {[id |-> <<Quote, Backslash>>, origin |-> 0, readings |-> [nil |-> TRUE, items |-> <<>>]]}

\* Envelopes of other publishers: well-formed and malformed payloads,
\* accepted and other content types.
ForeignEnvelopes ==
    {Envelope(JSONType, Marshal(TestEvent), "edgex/events/ns/dev", None),
     Envelope("text/plain", Marshal(TestEvent), "edgex/events/ns/dev", None),
     Envelope(JSONType, <<"{", Quote, "i", "d", Quote, ":">>, "edgex/events/ns/dev", None)}

(***************************************************************************)
(* The configuration (mqttclient.go 21-36) and its loader: the defaults    *)
(* (56-74), the TOML file if a path is given (77-81), the environment      *)
(* (128-166).  A string option is a string; the text of an environment     *)
(* variable that is scanned for an integer is a sequence of characters.    *)
(* The file cannot be told to change EnvPrefix here: it stays "EDGEX_".    *)
(***************************************************************************)
DefaultConfig ==
    [Host |-> "localhost", Port |-> 1883, Protocol |-> "tcp", Type |-> "mqtt",
     Topic |-> "edgex/events/#", ClientID |-> "EdgeXClient-uuid", Username |-> "",
     Password |-> "", Publish |-> FALSE, Interval |-> 10, LogLevel |-> "INFO",
     EnvPrefix |-> "EDGEX_"]

\* A key the file does not have, and a key it gives a value.
Absent(zero) == [set |-> FALSE, val |-> zero]

Given(v) == [set |-> TRUE, val |-> v]

\* toml.DecodeFile(configPath, &cfg): a key of the file overwrites the
\* field, a field without a key keeps its value.
DecodeFile(cfg, f) ==
    [cfg EXCEPT !.Host = IF f.host.set THEN f.host.val ELSE @,
                !.Port = IF f.port.set THEN f.port.val ELSE @,
                !.Protocol = IF f.protocol.set THEN f.protocol.val ELSE @,
                !.Type = IF f.type.set THEN f.type.val ELSE @,
                !.Topic = IF f.topic.set THEN f.topic.val ELSE @,
                !.ClientID = IF f.client_id.set THEN f.client_id.val ELSE @,
                !.Username = IF f.username.set THEN f.username.val ELSE @,
                !.Password = IF f.password.set THEN f.password.val ELSE @,
                !.Publish = IF f.publish.set THEN f.publish.val ELSE @,
                !.Interval = IF f.publish_interval.set THEN f.publish_interval.val ELSE @,
                !.LogLevel = IF f.log_level.set THEN f.log_level.val ELSE @]

\* The digits a text begins with, as a number; -1 if it begins with none.
RECURSIVE LeadingInt(_, _)
LeadingInt(v, acc) ==
    IF v # <<>> /\ IsDigit(Head(v))
    THEN LeadingInt(Tail(v), (IF acc < 0 THEN 0 ELSE acc * 10) + DigitValue(Head(v)))
    ELSE acc

\* fmt.Sscanf(v, "%d", &field): scans the integer the text begins with and
\* stores it through the pointer; a text that begins with none is an error
\* and leaves the field alone.  What follows the integer is not looked at.
Sscanf(v, field) ==
    LET n == LeadingInt(v, -1) IN
    IF n >= 0 THEN [count |-> 1, err |-> FALSE, field |-> n]
    ELSE [count |-> 0, err |-> TRUE, field |-> field]

\* os.Getenv(cfg.EnvPrefix + name): the text of the variable, empty if the
\* variable is not set.
Getenv(env, name) == env[name]

\* loadEnvOverrides(cfg), mqttclient.go 128-166.
loadEnvOverrides(cfg, env) ==
    [cfg EXCEPT
        !.Host = IF Getenv(env, "BROKER_HOST") # "" THEN Getenv(env, "BROKER_HOST") ELSE @,
        !.Port = IF Getenv(env, "BROKER_PORT") # <<>>
                 THEN Sscanf(Getenv(env, "BROKER_PORT"), @).field ELSE @,
        !.Protocol = IF Getenv(env, "BROKER_PROTOCOL") # ""
                     THEN Getenv(env, "BROKER_PROTOCOL") ELSE @,
        !.Type = IF Getenv(env, "TYPE") # "" THEN Getenv(env, "TYPE") ELSE @,
        !.Topic = IF Getenv(env, "TOPIC") # "" THEN Getenv(env, "TOPIC") ELSE @,
        !.ClientID = IF Getenv(env, "CLIENT_ID") # "" THEN Getenv(env, "CLIENT_ID") ELSE @,
        !.Username = IF Getenv(env, "USERNAME") # "" THEN Getenv(env, "USERNAME") ELSE @,
        !.Password = IF Getenv(env, "PASSWORD") # "" THEN Getenv(env, "PASSWORD") ELSE @,
        !.Publish = IF Getenv(env, "PUBLISH") = "true" THEN TRUE ELSE @,
        !.Interval = IF Getenv(env, "PUBLISH_INTERVAL") # <<>>
                     THEN Sscanf(Getenv(env, "PUBLISH_INTERVAL"), @).field ELSE @,
        !.LogLevel = IF Getenv(env, "LOG_LEVEL") # "" THEN Getenv(env, "LOG_LEVEL") ELSE @]

\* The configuration NewMQTTClient builds from a file and an environment.
NewConfig(in) ==
    loadEnvOverrides(IF in.file.path THEN DecodeFile(DefaultConfig, in.file) ELSE DefaultConfig,
                 in.env)

\* The files: no path, a file that does not parse, and files that give or
\* leave out the broker host, the port, publish and the interval; the other
\* string options are all given or all left out.
FileOf(host, port, publish, interval, others) ==
    [path |-> TRUE, parses |-> TRUE, host |-> host, port |-> port, publish |-> publish,
     publish_interval |-> interval,
     protocol |-> IF others THEN Given("ssl") ELSE Absent(""),
     type |-> IF others THEN Given("file-type") ELSE Absent(""),
     topic |-> IF others THEN Given("file/topic") ELSE Absent(""),
     client_id |-> IF others THEN Given("file-client") ELSE Absent(""),
     username |-> IF others THEN Given("file-user") ELSE Absent(""),
     password |-> IF others THEN Given("file-password") ELSE Absent(""),
     log_level |-> IF others THEN Given("DEBUG") ELSE Absent("")]

EmptyFile == FileOf(Absent(""), Absent(0), Absent(FALSE), Absent(0), FALSE)

NoFile == [EmptyFile EXCEPT !.path = FALSE]

Files ==
    {NoFile, [EmptyFile EXCEPT !.parses = FALSE]}
    \cup {FileOf(host, port, publish, interval, others) :
             host \in {Absent(""), Given("file-host")},
             port \in {Absent(0), Given(8883)},
             publish \in {Absent(FALSE), Given(FALSE), Given(TRUE)},
             interval \in {Absent(0), Given(30)},
             others \in BOOLEAN}

\* The environments: each variable unset (or empty: Getenv does not tell),
\* or set; an integer variable to digits, to digits followed by something
\* else, or to no digits; the other string options all set or all unset.
EnvOf(host, port, publish, interval, others) ==
    [BROKER_HOST |-> host, BROKER_PORT |-> port, PUBLISH |-> publish,
     PUBLISH_INTERVAL |-> interval,
     BROKER_PROTOCOL |-> IF others THEN "ws" ELSE "",
     TYPE |-> IF others THEN "env-type" ELSE "",
     TOPIC |-> IF others THEN "env/topic" ELSE "",
     CLIENT_ID |-> IF others THEN "env-client" ELSE "",
     USERNAME |-> IF others THEN "env-user" ELSE "",
     PASSWORD |-> IF others THEN "env-password" ELSE "",
     LOG_LEVEL |-> IF others THEN "TRACE" ELSE ""]

IntTexts == {<<>>, <<"2", "5">>, <<"7", "x">>, <<"x">>}

Envs ==
    {EnvOf(host, port, publish, interval, others) :
        host \in {"", "env-host"},
        port \in IntTexts,
        publish \in {"", "true", "false"},
        interval \in IntTexts,
        others \in BOOLEAN}

EmptyEnv == EnvOf("", <<>>, "", <<>>, FALSE)

\* What NewMQTTClient is given where the configuration is the subject.
LoaderInputs == [file : Files, env : Envs]

\* What it is given where the lifecycle is: publish off, and publish on.
LifecycleInputs ==
    {[file |-> NoFile, env |-> EmptyEnv],
     [file |-> [EmptyFile EXCEPT !.publish = Given(TRUE)], env |-> EmptyEnv]}

(***************************************************************************)
(* The state.                                                              *)
(***************************************************************************)
VARIABLES
    program,      \* who drives the client: "library" (any caller) or "receive-test" (its main)
    inputs,       \* what NewMQTTClient is given: the configuration file and the environment
    config,       \* cfg in NewMQTTClient, then c.config
    handler,      \* c.handler: "set" or "nil"
    proc,         \* "running", "panic_close", "panic_callback" or "exited"
    stopCh,       \* c.stopCh: "open" or "closed"
    wg,           \* c.wg's counter
    starts,       \* calls of Start so far
    startErr,     \* the error the last call of Start returned: "nil", "connect" or "subscribe"
    adapter,      \* calls of the adapter: connects, subscribes, disconnects
    hm,           \* handleMessages of the k-th Start: "none", "select", "handler", "done"
    cur,          \* the (topic, event) the k-th dispatch loop's callback runs on
    sp,           \* startPublishing of the k-th Start: "none", "select", "done"
    hs,           \* handleSignals of the k-th Start: "none", "wait", "signalled", "stopping", "done"
    stopPc,       \* where thread t is in Stop
    mainPc,       \* where the caller is
    offered,      \* the envelope an adapter worker is sending on c.messages, or None
    errPending,   \* whether an adapter worker is sending on c.messageErrs
    wire,         \* the published envelope the broker has yet to route back, or None
    lastErr,      \* the last error a loop logged: about an envelope, or about a publish
    stopReturned  \* whether a call of Stop has returned

vars ==
    <<program, inputs, config, handler, startErr, proc, stopCh, wg, starts, adapter, hm, cur, sp,
      hs, stopPc, mainPc, offered, errPending, wire, lastErr, stopReturned>>

Loops == 1..MaxStarts

\* The goroutines that may call Stop: 0 is the caller, k the k-th signal
\* watcher, Callback(k) the k-th dispatch loop while it runs the callback.
Callback(k) == MaxStarts + k

Threads == 0..(2 * MaxStarts)

Started == \E k \in Loops : hm[k] # "none"

\* What a client that has not been started holds.
Fresh ==
    /\ proc = "running"
    /\ stopCh = "open"
    /\ wg = 0
    /\ starts = 0
    /\ startErr = "nil"
    /\ adapter = [connects |-> 0, subscribes |-> 0, disconnects |-> 0]
    /\ hm = [k \in Loops |-> "none"]
    /\ cur = [k \in Loops |-> None]
    /\ sp = [k \in Loops |-> "none"]
    /\ hs = [k \in Loops |-> "none"]
    /\ stopPc = [t \in Threads |-> "idle"]
    /\ offered = None
    /\ errPending = FALSE
    /\ wire = None
    /\ lastErr = "none"
    /\ stopReturned = FALSE

\* Where the caller is once NewMQTTClient has returned the client.
AfterNew == IF program = "library" THEN "idle" ELSE "start"

\* The state NewMQTTClient returns the client in.
Init ==
    /\ program \in {"library", "receive-test"}
    /\ inputs \in LifecycleInputs
    /\ config = NewConfig(inputs)
    /\ handler \in (IF program = "library" THEN {"set", "nil"} ELSE {"set"})
    /\ mainPc = AfterNew
    /\ Fresh

Running == proc = "running"

\* The process ends: what its channels and callbacks held is gone.
Ends(how) ==
    /\ proc' = how
    /\ cur' = [k \in Loops |-> None]
    /\ offered' = None
    /\ errPending' = FALSE
    /\ wire' = None
    /\ lastErr' = "none"

(***************************************************************************)
(* Start (mqttclient.go 169-197).  The adapter's Connect and Subscribe may *)
(* fail; on success the k-th call spawns the k-th dispatch loop, publish   *)
(* loop (if config.Publish) and signal watcher.  Start keeps no record of  *)
(* an earlier Start or Stop.                                               *)
(***************************************************************************)
StartOutcomes == {"connect fails", "subscribe fails", "ok"}

\* A plausible slip: the goroutines are spawned whether or not Connect and
\* Subscribe succeeded.
Start_SpawnAnyway(outcome) ==
    LET k == starts + 1 IN
    /\ starts' = k
    /\ startErr' = CASE outcome = "connect fails" -> "connect"
                     [] outcome = "subscribe fails" -> "subscribe"
                     [] OTHER -> "nil"
    /\ adapter' = [adapter EXCEPT !.connects = @ + 1,
                                  !.subscribes = IF outcome = "connect fails" THEN @ ELSE @ + 1]
    /\ wg' = wg + 1 + (IF config.Publish THEN 1 ELSE 0)
    /\ hm' = [hm EXCEPT ![k] = "select"]
    /\ sp' = [sp EXCEPT ![k] = IF config.Publish THEN "select" ELSE "none"]
    /\ hs' = [hs EXCEPT ![k] = "wait"]

\* A plausible slip: the wait group is not told of the publish loop.
Start_NoAddForPublish(outcome) ==
    LET k == starts + 1 IN
    /\ starts' = k
    /\ startErr' = CASE outcome = "connect fails" -> "connect"
                     [] outcome = "subscribe fails" -> "subscribe"
                     [] OTHER -> "nil"
    /\ adapter' = [adapter EXCEPT !.connects = @ + 1,
                                  !.subscribes = IF outcome = "connect fails" THEN @ ELSE @ + 1]
    /\ IF outcome = "ok"
       THEN /\ wg' = wg + 1
            /\ hm' = [hm EXCEPT ![k] = "select"]
            /\ sp' = [sp EXCEPT ![k] = IF config.Publish THEN "select" ELSE "none"]
            /\ hs' = [hs EXCEPT ![k] = "wait"]
       ELSE UNCHANGED <<wg, hm, sp, hs>>

\* A plausible slip: the publish loop is spawned without looking at
\* config.Publish.
Start_PublishAlways(outcome) ==
    LET k == starts + 1 IN
    /\ starts' = k
    /\ startErr' = CASE outcome = "connect fails" -> "connect"
                     [] outcome = "subscribe fails" -> "subscribe"
                     [] OTHER -> "nil"
    /\ adapter' = [adapter EXCEPT !.connects = @ + 1,
                                  !.subscribes = IF outcome = "connect fails" THEN @ ELSE @ + 1]
    /\ IF outcome = "ok"
       THEN /\ wg' = wg + 2
            /\ hm' = [hm EXCEPT ![k] = "select"]
            /\ sp' = [sp EXCEPT ![k] = "select"]
            /\ hs' = [hs EXCEPT ![k] = "wait"]
       ELSE UNCHANGED <<wg, hm, sp, hs>>

Start(outcome) ==
    LET k == starts + 1 IN
    /\ starts' = k
    /\ startErr' = CASE outcome = "connect fails" -> "connect"
                     [] outcome = "subscribe fails" -> "subscribe"
                     [] OTHER -> "nil"
    /\ adapter' = [adapter EXCEPT !.connects = @ + 1,
                                  !.subscribes = IF outcome = "connect fails" THEN @ ELSE @ + 1]
    /\ IF outcome = "ok"
       THEN /\ wg' = wg + 1 + (IF config.Publish THEN 1 ELSE 0)
            /\ hm' = [hm EXCEPT ![k] = "select"]
            /\ sp' = [sp EXCEPT ![k] = IF config.Publish THEN "select" ELSE "none"]
            /\ hs' = [hs EXCEPT ![k] = "wait"]
       ELSE UNCHANGED <<wg, hm, sp, hs>>

\* A caller of the library calls Start, at any time it is not inside Stop.
CallStart ==
    /\ Running /\ program = "library" /\ stopPc[0] = "idle"
    /\ starts < MaxStarts
    /\ \E outcome \in StartOutcomes : Start(outcome)
    /\ UNCHANGED <<program, inputs, config, handler, proc, stopCh, cur, stopPc, mainPc,
                   offered, errPending, wire, lastErr, stopReturned>>

(***************************************************************************)
(* Stop (mqttclient.go 315-322), by thread t: close(c.stopCh), which       *)
(* panics on a closed channel; Disconnect, whose error is only logged;     *)
(* c.wg.Wait().                                                            *)
(***************************************************************************)
StopClose(t) ==
    /\ Running /\ stopPc[t] = "idle"
    /\ IF stopCh = "closed"
       THEN Ends("panic_close") /\ UNCHANGED <<stopCh, stopPc>>
       ELSE /\ stopCh' = "closed"
            /\ stopPc' = [stopPc EXCEPT ![t] = "disconnect"]
            /\ UNCHANGED <<proc, cur, offered, errPending, wire, lastErr>>

StopDisconnect(t) ==
    /\ Running /\ stopPc[t] = "disconnect"
    /\ adapter' = [adapter EXCEPT !.disconnects = @ + 1]
    /\ stopPc' = [stopPc EXCEPT ![t] = "wait"]
    /\ UNCHANGED <<program, inputs, config, handler, startErr, proc, stopCh, wg, starts,
                   hm, cur, sp, hs, mainPc, offered, errPending, wire, lastErr,
                   stopReturned>>

\* A plausible slip: Stop returns without waiting for the wait group.
StopWait_NoWait(t) ==
    /\ Running /\ stopPc[t] = "wait"
    /\ stopPc' = [stopPc EXCEPT ![t] = "idle"]
    /\ stopReturned' = TRUE
    /\ hs' = IF t \in Loops THEN [hs EXCEPT ![t] = "done"] ELSE hs
    /\ mainPc' = IF t = 0 /\ program = "receive-test" THEN "exit" ELSE mainPc
    /\ UNCHANGED <<program, inputs, config, handler, startErr, proc, stopCh, wg, starts,
                   adapter, hm, cur, sp, offered, errPending, wire, lastErr>>

StopWait(t) ==
    /\ Running /\ stopPc[t] = "wait"
    /\ wg = 0
    /\ stopPc' = [stopPc EXCEPT ![t] = "idle"]
    /\ stopReturned' = TRUE
    /\ hs' = IF t \in Loops THEN [hs EXCEPT ![t] = "done"] ELSE hs
    /\ mainPc' = IF t = 0 /\ program = "receive-test" THEN "exit" ELSE mainPc
    /\ UNCHANGED <<program, inputs, config, handler, startErr, proc, stopCh, wg, starts,
                   adapter, hm, cur, sp, offered, errPending, wire, lastErr>>

\* A caller of the library calls Stop on a client it has started.
CallStop ==
    /\ program = "library" /\ Started
    /\ StopClose(0)
    /\ UNCHANGED <<program, inputs, config, handler, startErr, wg, starts, adapter, hm,
                   sp, hs, mainPc, stopReturned>>

(***************************************************************************)
(* handleSignals (mqttclient.go 325-331): the watcher waits for a signal   *)
(* and calls Stop.  A signal goes to every channel registered for it.      *)
(***************************************************************************)
Signal ==
    /\ Running
    /\ (\E k \in Loops : hs[k] = "wait") \/ mainPc = "await"
    /\ hs' = [k \in Loops |-> IF hs[k] = "wait" THEN "signalled" ELSE hs[k]]
    /\ mainPc' = IF mainPc = "await" THEN "signalled" ELSE mainPc
    /\ UNCHANGED <<program, inputs, config, handler, startErr, proc, stopCh, wg, starts,
                   adapter, hm, cur, sp, stopPc, offered, errPending, wire, lastErr,
                   stopReturned>>

handleSignals(k) ==
    /\ hs[k] = "signalled"
    /\ StopClose(k)
    /\ hs' = [hs EXCEPT ![k] = "stopping"]
    /\ UNCHANGED <<program, inputs, config, handler, startErr, wg, starts, adapter, hm,
                   sp, mainPc, stopReturned>>

(***************************************************************************)
(* main of receive-test (receive.go 14-50): Start, register for the        *)
(* signals, wait for one, Stop, return.  main returning ends the process.  *)
(***************************************************************************)
MainStart ==
    /\ Running /\ program = "receive-test" /\ mainPc = "start"
    /\ \E outcome \in StartOutcomes :
          /\ Start(outcome)
          /\ IF outcome = "ok"
             THEN /\ mainPc' = "notify"
                  /\ UNCHANGED <<proc, cur, offered, errPending, wire, lastErr>>
             ELSE mainPc' = mainPc /\ Ends("exited")
    /\ UNCHANGED <<program, inputs, config, handler, stopCh, stopPc, stopReturned>>

MainNotify ==
    /\ Running /\ mainPc = "notify"
    /\ mainPc' = "await"
    /\ UNCHANGED <<program, inputs, config, handler, startErr, proc, stopCh, wg, starts,
                   adapter, hm, cur, sp, hs, stopPc, offered, errPending, wire, lastErr,
                   stopReturned>>

MainStop ==
    /\ mainPc = "signalled"
    /\ StopClose(0)
    /\ mainPc' = "stopping"
    /\ UNCHANGED <<program, inputs, config, handler, startErr, wg, starts, adapter, hm,
                   sp, hs, stopReturned>>

MainExit ==
    /\ Running /\ mainPc = "exit"
    /\ Ends("exited")
    /\ UNCHANGED <<program, inputs, config, handler, startErr, stopCh, wg, starts,
                   adapter, hm, sp, hs, stopPc, mainPc, stopReturned>>

(***************************************************************************)
(* The adapter's workers: once subscribed, a worker sends an envelope on   *)
(* c.messages or an error on c.messageErrs; both channels are unbuffered,  *)
(* so the worker waits until a dispatch loop receives.  The broker routes  *)
(* a published envelope back to the subscription.                          *)
(***************************************************************************)
AdapterOffer(env) ==
    /\ Running /\ Started /\ offered = None
    /\ offered' = env
    /\ UNCHANGED <<program, inputs, config, handler, startErr, proc, stopCh, wg, starts,
                   adapter, hm, cur, sp, hs, stopPc, mainPc, errPending, wire, lastErr,
                   stopReturned>>

AdapterLoopback ==
    /\ Running /\ Started /\ offered = None /\ wire # None
    /\ offered' = wire
    /\ wire' = None
    /\ UNCHANGED <<program, inputs, config, handler, startErr, proc, stopCh, wg, starts,
                   adapter, hm, cur, sp, hs, stopPc, mainPc, errPending, lastErr,
                   stopReturned>>

AdapterError ==
    /\ Running /\ Started /\ ~errPending
    /\ errPending' = TRUE
    /\ UNCHANGED <<program, inputs, config, handler, startErr, proc, stopCh, wg, starts,
                   adapter, hm, cur, sp, hs, stopPc, mainPc, offered, wire, lastErr,
                   stopReturned>>

(***************************************************************************)
(* handleMessages (mqttclient.go 200-229).  select takes any one of the    *)
(* cases that can proceed.                                                 *)
(***************************************************************************)
\* A plausible slip: no check of the content type.
ContentTypeAccepted_Any(msg) == TRUE

\* mqttclient.go 210.
ContentTypeAccepted(msg) == msg.contentType = JSONType

\* A plausible slip: the decode error is logged and the event delivered.
DecodeFailed_NoContinue(d) == FALSE

\* mqttclient.go 216.
DecodeFailed(d) == ~d.ok

\* What the loop does with an envelope: the error it logs, whether it calls
\* the callback, and on what.
Dispatch(msg) ==
    LET d == Unmarshal(msg.payload) IN
    IF ~ContentTypeAccepted(msg)
    THEN [err |-> "content type", deliver |-> FALSE, topic |-> msg.receivedTopic, event |-> ZeroEvent]
    ELSE IF DecodeFailed(d)
    THEN [err |-> "decode", deliver |-> FALSE, topic |-> msg.receivedTopic, event |-> ZeroEvent]
    ELSE [err |-> "none", deliver |-> handler # "nil", topic |-> msg.receivedTopic,
          event |-> d.event]

\* A plausible slip: the stop case counts the loop as done but does not
\* return, so the loop goes on receiving.
HmRecvMsg_AfterStop(k) ==
    /\ Running /\ hm[k] \in {"select", "done"} /\ offered # None
    /\ LET r == Dispatch(offered) IN
       /\ offered' = None
       /\ lastErr' = IF r.err # "none" THEN r.err ELSE lastErr
       /\ IF r.deliver
          THEN /\ hm' = [hm EXCEPT ![k] = "handler"]
               /\ cur' = [cur EXCEPT ![k] = [topic |-> r.topic, event |-> r.event]]
          ELSE UNCHANGED <<hm, cur>>
    /\ UNCHANGED <<program, inputs, config, handler, startErr, proc, stopCh, wg, starts,
                   adapter, sp, hs, stopPc, mainPc, errPending, wire, stopReturned>>

\* A plausible slip: the callback is run in a goroutine of its own, so the
\* loop takes the next envelope while the last callback still runs.
HmRecvMsg_Concurrent(k) ==
    /\ Running /\ hm[k] \in {"select", "handler"} /\ offered # None
    /\ LET r == Dispatch(offered) IN
       /\ offered' = None
       /\ lastErr' = IF r.err # "none" THEN r.err ELSE lastErr
       /\ IF r.deliver
          THEN /\ hm' = [hm EXCEPT ![k] = "handler"]
               /\ cur' = [cur EXCEPT ![k] = [topic |-> r.topic, event |-> r.event]]
          ELSE UNCHANGED <<hm, cur>>
    /\ UNCHANGED <<program, inputs, config, handler, startErr, proc, stopCh, wg, starts,
                   adapter, sp, hs, stopPc, mainPc, errPending, wire, stopReturned>>

\* case msg := <-c.messages
HmRecvMsg(k) ==
    /\ Running /\ hm[k] = "select" /\ offered # None
    /\ LET r == Dispatch(offered) IN
       /\ offered' = None
       /\ lastErr' = IF r.err # "none" THEN r.err ELSE lastErr
       /\ IF r.deliver
          THEN /\ hm' = [hm EXCEPT ![k] = "handler"]
               /\ cur' = [cur EXCEPT ![k] = [topic |-> r.topic, event |-> r.event]]
          ELSE UNCHANGED <<hm, cur>>
    /\ UNCHANGED <<program, inputs, config, handler, startErr, proc, stopCh, wg, starts,
                   adapter, sp, hs, stopPc, mainPc, errPending, wire, stopReturned>>

\* The callback returns.
HmHandlerReturn(k) ==
    /\ Running /\ hm[k] = "handler" /\ stopPc[Callback(k)] = "idle"
    /\ hm' = [hm EXCEPT ![k] = "select"]
    /\ cur' = [cur EXCEPT ![k] = None]
    /\ UNCHANGED <<program, inputs, config, handler, startErr, proc, stopCh, wg, starts,
                   adapter, sp, hs, stopPc, mainPc, offered, errPending, wire, lastErr,
                   stopReturned>>

\* The callback panics: nothing recovers, the process ends.
HmHandlerPanic(k) ==
    /\ Running /\ hm[k] = "handler" /\ stopPc[Callback(k)] = "idle"
    /\ Ends("panic_callback")
    /\ UNCHANGED <<program, inputs, config, handler, startErr, stopCh, wg, starts,
                   adapter, hm, sp, hs, stopPc, mainPc, stopReturned>>

\* The callback a caller of the library gave calls Stop on the client.
HmHandlerStop(k) ==
    /\ program = "library" /\ hm[k] = "handler"
    /\ StopClose(Callback(k))
    /\ UNCHANGED <<program, inputs, config, handler, startErr, wg, starts, adapter, hm,
                   sp, hs, mainPc, stopReturned>>

\* case err := <-c.messageErrs
HmRecvErr(k) ==
    /\ Running /\ hm[k] = "select" /\ errPending
    /\ errPending' = FALSE
    /\ UNCHANGED <<program, inputs, config, handler, startErr, proc, stopCh, wg, starts,
                   adapter, hm, cur, sp, hs, stopPc, mainPc, offered, wire, lastErr,
                   stopReturned>>

\* case <-c.stopCh, and the deferred c.wg.Done()
HmStop(k) ==
    /\ Running /\ hm[k] = "select" /\ stopCh = "closed"
    /\ hm' = [hm EXCEPT ![k] = "done"]
    /\ wg' = wg - 1
    /\ UNCHANGED <<program, inputs, config, handler, startErr, proc, stopCh, starts,
                   adapter, cur, sp, hs, stopPc, mainPc, offered, errPending, wire,
                   lastErr, stopReturned>>

(***************************************************************************)
(* startPublishing (mqttclient.go 232-247) and the publish operations      *)
(* (250-312).  The adapter's Publish may fail.                             *)
(***************************************************************************)
\* A plausible slip: the loop returns when its publish fails.
SpTick_ReturnsOnError(k) ==
    /\ Running /\ sp[k] = "select"
    /\ \E ok \in BOOLEAN :
          IF ok
          THEN /\ wire' = Envelope(JSONType, Marshal(TestEvent), TestTopic, TestEvent)
               /\ UNCHANGED <<lastErr, sp, wg>>
          ELSE /\ lastErr' = "publish"
               /\ sp' = [sp EXCEPT ![k] = "done"]
               /\ wg' = wg - 1
               /\ UNCHANGED wire
    /\ UNCHANGED <<program, inputs, config, handler, startErr, proc, stopCh, starts,
                   adapter, hm, cur, hs, stopPc, mainPc, offered, errPending,
                   stopReturned>>

\* case <-ticker.C: PublishTestEvent("edgex/events/test"); its error is
\* logged and the loop goes on.
SpTick(k) ==
    /\ Running /\ sp[k] = "select"
    /\ \E ok \in BOOLEAN :
          IF ok
          THEN /\ wire' = Envelope(JSONType, Marshal(TestEvent), TestTopic, TestEvent)
               /\ UNCHANGED lastErr
          ELSE /\ lastErr' = "publish"
               /\ UNCHANGED wire
    /\ UNCHANGED <<program, inputs, config, handler, startErr, proc, stopCh, wg, starts,
                   adapter, hm, cur, sp, hs, stopPc, mainPc, offered, errPending,
                   stopReturned>>

\* case <-c.stopCh, and the deferred c.wg.Done()
SpStop(k) ==
    /\ Running /\ sp[k] = "select" /\ stopCh = "closed"
    /\ sp' = [sp EXCEPT ![k] = "done"]
    /\ wg' = wg - 1
    /\ UNCHANGED <<program, inputs, config, handler, startErr, proc, stopCh, starts,
                   adapter, hm, cur, hs, stopPc, mainPc, offered, errPending, wire,
                   lastErr, stopReturned>>

\* PublishEvent(event, topic): the envelope carries the serialized event
\* with content type application/json.
PublishEvent(event, topic) ==
    /\ Running /\ Started
    /\ \E ok \in BOOLEAN :
          wire' = IF ok THEN Envelope(JSONType, Marshal(event), topic, event) ELSE wire
    /\ UNCHANGED <<program, inputs, config, handler, startErr, proc, stopCh, wg, starts,
                   adapter, hm, cur, sp, hs, stopPc, mainPc, offered, errPending,
                   lastErr, stopReturned>>

\* A caller of the library publishes an event.
CallPublishEvent ==
    /\ program = "library" /\ stopPc[0] = "idle"
    /\ \E e \in SampleEvents : PublishEvent(e, TestTopic)

(***************************************************************************)
(* The lifecycle specification: every interleaving of the caller, the      *)
(* goroutines the client spawns, the adapter's workers and the signals.    *)
(***************************************************************************)
Next ==
    \/ CallStart
    \/ CallStop
    \/ CallPublishEvent
    \/ MainStart
    \/ MainNotify
    \/ MainStop
    \/ MainExit
    \/ Signal
    \/ \E k \in Loops : handleSignals(k)
    \/ \E t \in Threads : StopDisconnect(t)
    \/ \E t \in Threads : StopWait(t)
    \/ \E env \in ForeignEnvelopes : AdapterOffer(env)
    \/ AdapterLoopback
    \/ AdapterError
    \/ \E k \in Loops : HmRecvMsg(k)
    \/ \E k \in Loops : HmHandlerReturn(k)
    \/ \E k \in Loops : HmHandlerPanic(k)
    \/ \E k \in Loops : HmHandlerStop(k)
    \/ \E k \in Loops : HmRecvErr(k)
    \/ \E k \in Loops : HmStop(k)
    \/ \E k \in Loops : SpTick(k)
    \/ \E k \in Loops : SpStop(k)

Spec == Init /\ [][Next]_vars

(***************************************************************************)
(* The same, for a caller that keeps Start's contract and calls it once.   *)
(***************************************************************************)
CallStartOnce == starts = 0 /\ CallStart

SingleStartNext ==
    \/ CallStartOnce
    \/ CallStop
    \/ CallPublishEvent
    \/ MainStart
    \/ MainNotify
    \/ MainStop
    \/ MainExit
    \/ Signal
    \/ \E k \in Loops : handleSignals(k)
    \/ \E t \in Threads : StopDisconnect(t)
    \/ \E t \in Threads : StopWait(t)
    \/ \E env \in ForeignEnvelopes : AdapterOffer(env)
    \/ AdapterLoopback
    \/ AdapterError
    \/ \E k \in Loops : HmRecvMsg(k)
    \/ \E k \in Loops : HmHandlerReturn(k)
    \/ \E k \in Loops : HmHandlerPanic(k)
    \/ \E k \in Loops : HmHandlerStop(k)
    \/ \E k \in Loops : HmRecvErr(k)
    \/ \E k \in Loops : HmStop(k)
    \/ \E k \in Loops : SpTick(k)
    \/ \E k \in Loops : SpStop(k)

SingleStartSpec == Init /\ [][SingleStartNext]_vars

(***************************************************************************)
(* Scheduling.  A goroutine that can take a step takes one; a callback     *)
(* that runs returns or panics; select chooses among the cases that can    *)
(* proceed at random, so a case that can proceed again and again is taken  *)
(* (strong fairness of the stop cases).  The adapter's workers, the        *)
(* ticker, the caller and the signals are under no obligation.             *)
(***************************************************************************)
Fairness ==
    /\ \A t \in Threads : WF_vars(StopDisconnect(t)) /\ WF_vars(StopWait(t))
    /\ \A k \in Loops : WF_vars(handleSignals(k))
    /\ WF_vars(MainNotify) /\ WF_vars(MainStop) /\ WF_vars(MainExit)
    /\ \A k \in Loops : WF_vars(HmHandlerReturn(k) \/ HmHandlerPanic(k))
    /\ \A k \in Loops : SF_vars(HmStop(k)) /\ SF_vars(SpStop(k))

FairSpec == SingleStartSpec /\ Fairness

(***************************************************************************)
(* The round trip of an event: a caller that starts the client once and    *)
(* publishes events of every shape within the bounds, a broker that routes *)
(* them back, and the dispatch loop, one event at a time.                  *)
(***************************************************************************)
\* The caller publishes the next event when the last one has been dispatched.
RoundTripPublish ==
    /\ program = "library"
    /\ wire = None /\ offered = None /\ \A k \in Loops : hm[k] # "handler"
    /\ \E e \in Events, topic \in Topics : PublishEvent(e, topic)

RoundTripNext ==
    \/ CallStartOnce
    \/ RoundTripPublish
    \/ AdapterLoopback
    \/ \E k \in Loops : HmRecvMsg(k)
    \/ \E k \in Loops : HmHandlerReturn(k)

RoundTripSpec == Init /\ [][RoundTripNext]_vars

(***************************************************************************)
(* NewMQTTClient (mqttclient.go 54-125), step by step: cfg starts as the   *)
(* defaults, the file is decoded into it if a path is given (an error      *)
(* returns no client), then the environment is laid over it.               *)
(***************************************************************************)
NewDecodeFile ==
    /\ Running /\ mainPc = "DecodeFile"
    /\ IF ~inputs.file.path
       THEN config' = config /\ mainPc' = "loadEnvOverrides"
       ELSE IF ~inputs.file.parses
       THEN config' = config /\ mainPc' = "failed"
       ELSE config' = DecodeFile(config, inputs.file) /\ mainPc' = "loadEnvOverrides"
    /\ UNCHANGED <<program, inputs, handler, startErr, proc, stopCh, wg, starts,
                   adapter, hm, cur, sp, hs, stopPc, offered, errPending, wire, lastErr,
                   stopReturned>>

NewLoadEnv ==
    /\ Running /\ mainPc = "loadEnvOverrides"
    /\ config' = loadEnvOverrides(config, inputs.env)
    /\ mainPc' = AfterNew
    /\ UNCHANGED <<program, inputs, handler, startErr, proc, stopCh, wg, starts,
                   adapter, hm, cur, sp, hs, stopPc, offered, errPending, wire, lastErr,
                   stopReturned>>

ConfigInit ==
    /\ program \in {"library", "receive-test"}
    /\ inputs \in LoaderInputs
    /\ config = DefaultConfig
    /\ handler \in (IF program = "library" THEN {"set", "nil"} ELSE {"set"})
    /\ mainPc = "DecodeFile"
    /\ Fresh

ConfigNext ==
    \/ NewDecodeFile
    \/ NewLoadEnv

ConfigSpec == ConfigInit /\ [][ConfigNext]_vars

(***************************************************************************)
(* The claims.                                                             *)
(***************************************************************************)
NoSignalHandled == \A k \in Loops : hs[k] \in {"none", "wait"}

\* C1: Stop is idempotent.  When the caller's first Stop has returned (and
\* no signal watcher has acted), a further Stop returns normally and leaves
\* the stop channel closed and the adapter disconnected once: it never ends
\* the process by closing the closed channel.
C1_StopIdempotent ==
    (program = "library" /\ stopReturned /\ NoSignalHandled)
        => (proc # "panic_close" /\ stopCh = "closed" /\ adapter.disconnects = 1)

\* C2: after a call of Stop has returned, no callback invocation is in
\* progress or begins, whatever the adapter offers.
C2_NoCallbackAfterStop ==
    stopReturned => \A k \in Loops : hm[k] # "handler"

\* A stop sequence is over: the stop channel was closed and no thread is
\* inside Stop any more, because Stop returned or because a Stop panicked.
StopSequenceOver ==
    /\ stopCh = "closed"
    /\ \/ proc = "panic_close"
       \/ Running /\ \A t \in Threads : stopPc[t] = "idle"

\* C3: every stop sequence on a started client (one Stop, two Stops in
\* sequence, the signal watcher's Stop interleaved with the caller's) calls
\* the adapter's Disconnect exactly once.
C3_ExactlyOneDisconnect ==
    /\ adapter.disconnects <= 1
    /\ StopSequenceOver => adapter.disconnects = 1

\* C4: in receive-test, where the signal watcher and main both call Stop on
\* a signal, no interleaving closes the closed stop channel, and the
\* process exits only after main's Stop has returned (or Start failed).
C4_SignalClosesOnce ==
    program = "receive-test"
        => /\ proc # "panic_close"
           /\ (proc = "exited" /\ Started) => (stopReturned /\ stopCh = "closed")

\* A step in which a dispatch loop begins a callback invocation.
BeginsCallback(k) == hm[k] # "handler" /\ hm'[k] = "handler"

\* C5: content-type gate.  While the envelope on the inbound channel has a
\* content type other than application/json, no step begins a callback
\* invocation, and the step that takes the envelope logs the content type
\* error and leaves every dispatch loop where it was.
C5_ContentTypeGate ==
    [][(offered # None /\ offered.contentType # JSONType)
          => /\ \A k \in Loops : ~BeginsCallback(k)
             /\ (offered' # offered /\ Running')
                   => (offered' = None /\ lastErr' = "content type" /\ hm' = hm)]_vars

\* A content type error was logged and the loop is back at its select.
C5_Witness ==
    /\ Running /\ lastErr = "content type" /\ offered = None
    /\ \E k \in Loops : hm[k] = "select"

\* C6: decode isolation.  An application/json envelope whose payload does
\* not decode is dropped: the step that takes it logs the decode error,
\* begins no callback and leaves every dispatch loop at its select.  An
\* application/json envelope whose payload decodes, taken by a loop of a
\* client with a callback, is delivered: that loop begins the callback on
\* the received topic and the decoded event (also after a decode error).
C6_DecodeIsolation ==
    [][(offered # None /\ offered.contentType = JSONType /\ offered' # offered /\ Running')
          => IF Unmarshal(offered.payload).ok
             THEN handler = "set"
                     => \E k \in Loops :
                           /\ hm[k] = "select" /\ hm'[k] = "handler"
                           /\ cur'[k] = [topic |-> offered.receivedTopic,
                                         event |-> Unmarshal(offered.payload).event]
             ELSE /\ hm' = hm
                  /\ lastErr' = "decode"
                  /\ offered' = None]_vars

\* After a decode error was logged, a callback runs on a well-formed event.
C6_Witness ==
    /\ Running /\ lastErr = "decode"
    /\ \E k \in Loops : hm[k] = "handler" /\ cur[k].event = TestEvent

\* A step in which a dispatch loop takes the envelope PublishEvent built
\* from an event, and calls the callback once, on the received topic and
\* that event.
DeliversPublished(k) ==
    /\ hm[k] = "select" /\ hm'[k] = "handler"
    /\ cur'[k] = [topic |-> offered.receivedTopic, event |-> offered.src]
    /\ \A j \in Loops \ {k} : hm'[j] = hm[j]
    /\ offered' = None

\* C7 as stated: every event PublishEvent serialized, fed back to a
\* dispatch loop of a client with a callback, is delivered as it was.
C7_RoundTripAnyEvent ==
    [][(offered # None /\ offered.src # None /\ offered' # offered /\ handler = "set")
          => \E k \in Loops : DeliversPublished(k)]_vars

\* C7 as amended: the same for an event whose strings are valid UTF-8.
C7_RoundTripValidUTF8 ==
    [][(offered # None /\ offered.src # None /\ offered' # offered /\ handler = "set"
          /\ ValidUTF8Event(offered.src))
          => \E k \in Loops : DeliversPublished(k)]_vars

\* A callback runs on a published event whose strings need escaping.
C7_Witness ==
    \E k \in Loops :
        /\ hm[k] = "handler"
        /\ cur[k].event.id \in {<<Quote>>, <<Backslash>>}
        /\ cur[k].event.readings.items = <<[value |-> <<Quote, "a">>]>>

\* C8: at most one callback invocation is in progress at any time, after
\* any sequence of public operations (repeated Start included).
C8_CallbackMutualExclusion ==
    Cardinality({k \in Loops : hm[k] = "handler"}) <= 1

\* C9: a callback that panics does not end the dispatch loop: the panic is
\* trapped, so it never ends the process.
C9_CallbackPanicTrapped ==
    proc # "panic_callback"

AllLoopsDone == \A k \in Loops : hm[k] \in {"none", "done"} /\ sp[k] \in {"none", "done"}

\* C10: graceful stop.  If no callback panics, then once the stop channel
\* is closed, the dispatch and publish loops eventually terminate and Stop
\* eventually returns, however long the adapter offers envelopes and the
\* ticker fires.
C10_GracefulStop ==
    [](proc # "panic_callback") => [](stopCh = "closed" => <>(stopReturned /\ AllLoopsDone))

\* A step in which an envelope is received from the inbound channel.
ReceivesEnvelope == offered # None /\ offered' = None /\ Running'

\* C11: callbacks run in the order the dispatch loop receives envelopes.
\* For a client started once, the step that receives an envelope finds no
\* callback in progress (the callback of every envelope received earlier
\* has completed), and a callback begins only in the step that receives
\* its envelope, on that envelope's topic and event.
C11_CallbacksInReceiveOrder ==
    [][/\ ReceivesEnvelope => \A k \in Loops : hm[k] # "handler"
       /\ \A k \in Loops :
             BeginsCallback(k)
                => /\ ReceivesEnvelope
                   /\ cur'[k] = [topic |-> offered.receivedTopic,
                                 event |-> Unmarshal(offered.payload).event]]_vars

\* While the callback of one accepted envelope runs, the next accepted
\* envelope waits on the inbound channel.
C11_Witness ==
    /\ Running /\ offered # None
    /\ offered.contentType = JSONType /\ Unmarshal(offered.payload).ok
    /\ \E k \in Loops : hm[k] = "handler" /\ cur[k].event = TestEvent

\* C12: Stopped is terminal.  Once a call of Stop has returned, no step
\* calls the adapter's Connect or Subscribe, and no dispatch or publish
\* loop comes to run.
C12_StoppedIsTerminal ==
    [][stopReturned
          => /\ adapter'.connects = adapter.connects
             /\ adapter'.subscribes = adapter.subscribes
             /\ \A k \in Loops : /\ hm'[k] \in {"select", "handler"} => hm[k] = hm'[k]
                                 /\ sp'[k] = "select" => sp[k] = "select"]_vars

\* C13: a call of Start on a client that was started already returns an
\* error, calls neither Connect nor Subscribe and spawns no goroutine.
C13_SecondStartRejected ==
    [][(Started /\ starts' # starts)
          => /\ startErr' # "nil"
             /\ adapter' = adapter
             /\ hm' = hm /\ sp' = sp /\ hs' = hs /\ wg' = wg]_vars

\* NewMQTTClient has returned the client.
Loaded == mainPc = AfterNew

\* The value the overlay rule gives an option: the environment's if it has
\* one, else the file's if it gives one, else the default.
Overlay(envHas, envValue, fileKey, default) ==
    IF envHas THEN envValue ELSE IF fileKey.set THEN fileKey.val ELSE default

OverlayString(name, fileKey, default) ==
    Overlay(inputs.env[name] # "", inputs.env[name], fileKey, default)

\* The text is an integer: digits and nothing else.
IsInteger(v) == v # <<>> /\ \A i \in 1..Len(v) : IsDigit(v[i])

\* For an integer option: the rule where the variable is unset or empty or
\* its text is an integer (the rule gives no value for any other text).
OverlayInteger(name, loaded, fileKey, default) ==
    (inputs.env[name] = <<>> \/ IsInteger(inputs.env[name]))
        => loaded = Overlay(inputs.env[name] # <<>>, LeadingInt(inputs.env[name], -1),
                            fileKey, default)

\* C14: overlay precedence.  Every option of the loaded configuration has
\* the environment's value if the variable is set and not empty, else the
\* file's value if the file gives one, else the default.
C14_OverlayPrecedence ==
    Loaded
        => /\ config.Host = OverlayString("BROKER_HOST", inputs.file.host, DefaultConfig.Host)
           /\ OverlayInteger("BROKER_PORT", config.Port, inputs.file.port, DefaultConfig.Port)
           /\ config.Protocol
                 = OverlayString("BROKER_PROTOCOL", inputs.file.protocol, DefaultConfig.Protocol)
           /\ config.Type = OverlayString("TYPE", inputs.file.type, DefaultConfig.Type)
           /\ config.Topic = OverlayString("TOPIC", inputs.file.topic, DefaultConfig.Topic)
           /\ config.ClientID
                 = OverlayString("CLIENT_ID", inputs.file.client_id, DefaultConfig.ClientID)
           /\ config.Username
                 = OverlayString("USERNAME", inputs.file.username, DefaultConfig.Username)
           /\ config.Password
                 = OverlayString("PASSWORD", inputs.file.password, DefaultConfig.Password)
           /\ config.Publish
                 = Overlay(inputs.env.PUBLISH # "", inputs.env.PUBLISH = "true",
                           inputs.file.publish, DefaultConfig.Publish)
           /\ OverlayInteger("PUBLISH_INTERVAL", config.Interval, inputs.file.publish_interval,
                             DefaultConfig.Interval)
           /\ config.LogLevel
                 = OverlayString("LOG_LEVEL", inputs.file.log_level, DefaultConfig.LogLevel)

\* C15: when the PUBLISH variable is set and not empty, the loaded publish
\* option is true exactly if the variable's text is "true", whatever the
\* file gave.
C15_PublishFromEnv ==
    (Loaded /\ inputs.env.PUBLISH # "") => (config.Publish <=> inputs.env.PUBLISH = "true")

\* C16: a failing Start spawns nothing.  A call of Start that returns the
\* error of Connect has not called Subscribe; a call that returns the error
\* of Connect or of Subscribe has spawned no dispatch loop, publish loop or
\* signal watcher and leaves the wait group at zero.
C16_FailedStartSpawnsNothing ==
    [][(starts' # starts /\ startErr' # "nil")
          => /\ adapter'.connects = adapter.connects + 1
             /\ adapter'.subscribes = adapter.subscribes + (IF startErr' = "connect" THEN 0 ELSE 1)
             /\ hm' = hm /\ sp' = sp /\ hs' = hs
             /\ wg' = 0]_vars

\* Start has returned the error of Subscribe, after Connect succeeded.
C16_Witness ==
    /\ starts = 1 /\ startErr = "subscribe"
    /\ adapter.connects = 1 /\ adapter.subscribes = 1
    /\ wg = 0 /\ ~Started

\* The workers of the client that are running.
DispatchLoops == {k \in Loops : hm[k] \in {"select", "handler"}}

PublishLoops == {k \in Loops : sp[k] = "select"}

SignalWatchers == {k \in Loops : hs[k] \in {"wait", "signalled"}}

\* The envelope is one PublishTestEvent built.
FromTicker(env) == env # None /\ env.src = TestEvent

\* C17: the workers.  After the successful Start of a client started once
\* and before any Stop, the workers are one dispatch loop, one signal
\* watcher, and one publish loop if config.Publish is true and none if it
\* is false; and with config.Publish false no envelope of the ticker's
\* test event is ever published.
C17_WorkerSet ==
    /\ (Running /\ Started /\ stopCh = "open")
          => /\ Cardinality(DispatchLoops) = 1
             /\ Cardinality(SignalWatchers) = 1
             /\ Cardinality(PublishLoops) = IF config.Publish THEN 1 ELSE 0
    /\ ~config.Publish
          => /\ \A k \in Loops : sp[k] = "none"
             /\ ~FromTicker(wire) /\ ~FromTicker(offered)

\* With config.Publish true, the three workers run and the ticker has
\* published.
C17_Witness ==
    /\ Running /\ stopCh = "open" /\ config.Publish
    /\ DispatchLoops = {1} /\ PublishLoops = {1} /\ SignalWatchers = {1}
    /\ FromTicker(wire)

\* C18: the publish loop survives publish failures.  The step in which a
\* publish of the loop fails (the error is logged) leaves every publish
\* loop at its select, where the ticker's next tick publishes again; and a
\* publish loop leaves its select only by taking the case of the closed
\* stop channel.
C18_PublishLoopSurvives ==
    /\ [][/\ (lastErr' = "publish" /\ lastErr # "publish") => (sp' = sp /\ wg' = wg)
          /\ \A k \in Loops :
                (sp[k] = "select" /\ sp'[k] # "select")
                   => (sp'[k] = "done" /\ stopCh = "closed")]_vars
    /\ [](\A k \in Loops : (Running /\ sp[k] = "select") => ENABLED SpTick(k))

\* A publish of the loop has failed and was logged, the loop is at its
\* select, and a publish of the loop has succeeded.
C18_Witness ==
    /\ Running /\ stopCh = "open" /\ lastErr = "publish"
    /\ PublishLoops = {1} /\ FromTicker(wire)

\* C19: Stop called from inside the callback never returns.  While the
\* callback of the k-th dispatch loop is inside Stop, that loop is still in
\* the callback and still counted by the wait group; once that Stop waits
\* on the wait group it waits forever; and a Stop that returns was called
\* by a goroutine other than a dispatch loop.
C19_StopInCallbackBlocks ==
    /\ [](\A k \in Loops : stopPc[Callback(k)] # "idle" => (hm[k] = "handler" /\ wg >= 1))
    /\ [][/\ \A k \in Loops :
                stopPc[Callback(k)] = "wait" => stopPc'[Callback(k)] = "wait"
          /\ (stopReturned' /\ ~stopReturned)
                => \E t \in 0..MaxStarts : stopPc[t] = "wait" /\ stopPc'[t] = "idle"]_vars

\* The callback called Stop, which closed the stop channel, disconnected
\* and now waits on the wait group.
C19_Witness ==
    /\ Running /\ stopCh = "closed" /\ adapter.disconnects = 1
    /\ hm[1] = "handler" /\ stopPc[Callback(1)] = "wait"

\* A step in which a publish loop takes a tick and calls the adapter's
\* Publish.
TickPublishes == \E k \in Loops : SpTick(k)

\* C20: every Publish of the publish loop happens before Stop calls
\* Disconnect: no publish loop takes a tick and publishes once Disconnect
\* has been called.
C20_PublishBeforeDisconnect ==
    [][TickPublishes => adapter.disconnects = 0]_vars

\* C20, amended: for a client started once, every Publish of the publish
\* loop happens before Stop returns: once a Stop has returned, the publish
\* loop has exited and no step takes a tick.
C20_PublishBeforeStopReturns ==
    /\ [](stopReturned => PublishLoops = {})
    /\ [][TickPublishes => ~stopReturned]_vars

\* Stop has returned on a client whose publish loop published and exited.
C20_Witness ==
    /\ Running /\ stopReturned /\ config.Publish
    /\ sp[1] = "done" /\ FromTicker(wire)

\* The client was started and no dispatch loop runs any more.
DispatchLoopsExited == Started /\ DispatchLoops = {}

\* C21: the inbound channels are unbuffered and only the dispatch loop
\* receives from them.  For a client started once, a dispatch loop that
\* has exited stays exited, and while the process runs with the dispatch
\* loop exited, an envelope or an error an adapter worker is sending stays
\* with the worker: no step takes it, begins a callback or logs an error
\* about an envelope.
C21_SendBlocksAfterLoopExit ==
    [][/\ \A k \in Loops : hm[k] = "done" => hm'[k] = "done"
       /\ (DispatchLoopsExited /\ Running')
             => /\ offered # None => offered' = offered
                /\ errPending => errPending'
                /\ \A k \in Loops : ~BeginsCallback(k)
                /\ cur' = cur
                /\ lastErr' \in {lastErr, "publish"}]_vars

\* The dispatch loop has exited and adapter workers are sending an
\* envelope that would be accepted, and an error.
C21_Witness ==
    /\ Running /\ hm[1] = "done" /\ errPending
    /\ offered # None /\ offered.contentType = JSONType /\ Unmarshal(offered.payload).ok

=============================================================================
